---- MODULE Spec2Model ----
(***************************************************************************)
(* LaxCounter: the ball wall-hit detector (src/ball-detector.js) and the   *)
(* pose rep counter in its two revisions (src/unnamed/part_000).           *)
(*                                                                         *)
(* Units.  Times are milliseconds as read from Date.now().  Ball           *)
(* coordinates are canvas pixels; velocities are whole pixels per second   *)
(* and angles whole degrees (the source computes both in floating point;   *)
(* the inputs below are chosen so that the comparisons against the         *)
(* thresholds fall on the same side).  sensitivity is kept in tenths, as   *)
(* the slider shows it with one decimal.  Pose coordinates are hundredths  *)
(* of the normalised frame.                                                *)
(***************************************************************************)
EXTENDS Integers, Sequences, FiniteSets, TLC

VARIABLES
    now,              \* the reading Date.now() returns
    \* ---- BallDetector fields (src/ball-detector.js:22-36)
    isDetecting,
    hitCount,
    ballPositions,
    velocityHistory,
    sensitivity,      \* in tenths
    model,            \* FALSE is null, TRUE is the loaded COCO-SSD model
    lastHitTime,
    \* ---- BallDetector scheduling
    rafPending,       \* requestAnimationFrame callbacks not yet run
    awaitingAI,       \* detectBall calls suspended at "await this.detectBallWithAI()"
    \* ---- history of the hit detector
    ingestLog,        \* the samples pushed since the last resetCounter, in order
    hitLog,           \* Date.now() of each hit registered since the last resetCounter
    nIngested,        \* updateBallTracking calls so far (bounds the run)
    \* ---- rep counter globals (src/unnamed/part_000:128-130 and 238-248)
    variant,          \* which page is open: the rep counter in its "basic" or "richer"
                      \* revision, or the hit "detector"
    repCount,
    state,
    lastHandPos,      \* basic revision
    lastWristPos,     \* richer revision
    stateChangeTime,
    sessionActive,
    sessionStartTime,
    firstRepTime,
    repTimes,
    lastRepTime,
    rpm,              \* the number shown in rpmElement
    consistency,      \* the percentage shown in consistencyElement
    \* ---- history of the rep counter
    trail,            \* states entered since the last rep, reset or load: <<>>, then
                      \* <<"THROWING">>, then <<"THROWING", "CATCHING">>
    \* ---- a helper function called on its own (SpecCalc)
    call              \* NoCall, or the function's name, its arguments and its result

hitVars == <<isDetecting, hitCount, ballPositions, velocityHistory, sensitivity,
             model, lastHitTime, rafPending, awaitingAI, ingestLog, hitLog, nIngested>>

trackingVars == <<hitCount, ballPositions, velocityHistory, lastHitTime,
                  ingestLog, hitLog, nIngested>>

repVars == <<variant, repCount, state, lastHandPos, lastWristPos, stateChangeTime,
             sessionActive, sessionStartTime, firstRepTime, repTimes, lastRepTime,
             rpm, consistency, trail>>

vars == <<now, hitVars, repVars, call>>

----------------------------------------------------------------------------
(* Bounds of the model *)

Epoch == 5000          \* Date.now() when the page loads (far from 0)
MaxTicks == 4          \* hit detector: clock advances of 500 ms in one run
MaxSamples == 4        \* hit detector: samples ingested in one run
MaxLoops == 2          \* scheduling: animation-frame callbacks pending at once
MaxAwaiting == 2       \* scheduling: detectBall calls awaiting the AI model at once
MaxLoopSamples == 2    \* scheduling: samples ingested in one run
MaxLoopTicks == 1      \* scheduling: clock advances of 1500 ms in one run
MaxWindowSamples == 11 \* window: samples ingested in one run
MaxWindowTicks == 2    \* window: clock advances of 1000 ms in one run
MaxRepTicks == 3       \* rep counter: clock advances of 1000 ms in one run
MaxReps == 3           \* rep counter: reps counted in one run
MaxDurations == 3      \* helpers: longest list of rep durations handed to updateConsistency
MaxResetSamples == 6   \* reset: samples ingested in one run
MaxResetTicks == 3     \* reset: clock advances of 250 ms in one run

NoCall == [fn |-> "none"]     \* no helper is being called on its own
NoBall == [none |-> TRUE]
BallA == [x |-> 0,  y |-> 0,  confidence |-> 50]
BallB == [x |-> 30, y |-> 0,  confidence |-> 50]
BallC == [x |-> 30, y |-> 30, confidence |-> 0]
Balls == {BallA, BallB, BallC}
Sensitivities == {5, 10}

----------------------------------------------------------------------------
(* Detection parameters (constructor) *)

maxPositionHistory == 10
velocityThreshold == 50
directionChangeThreshold == 120
minTimeBetweenHits == 1000

----------------------------------------------------------------------------
(* Arithmetic of the source, on integers *)

Abs(n) == IF n < 0 THEN -n ELSE n

\* a / b of two numbers, rounded towards zero
Quot(a, b) ==
    LET q == Abs(a) \div Abs(b)
    IN  IF (a < 0) = (b < 0) THEN q ELSE -q

\* Math.sqrt, rounded down
Sqrt(n) == CHOOSE r \in 0..n : r * r <= n /\ (r + 1) * (r + 1) > n

\* 1000 * tan((d - 1/2) degrees), d = 1..90
HalfTan ==
    << 9, 26, 44, 61, 79, 96, 114, 132, 149, 167,
       185, 203, 222, 240, 259, 277, 296, 315, 335, 354,
       374, 394, 414, 435, 456, 477, 499, 521, 543, 566,
       589, 613, 637, 662, 687, 713, 740, 767, 795, 824,
       854, 885, 916, 949, 983, 1018, 1054, 1091, 1130, 1171,
       1213, 1257, 1303, 1351, 1402, 1455, 1511, 1570, 1632, 1698,
       1767, 1842, 1921, 2006, 2097, 2194, 2300, 2414, 2539, 2675,
       2824, 2989, 3172, 3376, 3606, 3867, 4165, 4511, 4915, 5396,
       5976, 6691, 7596, 8777, 10385, 12706, 16350, 22904, 38188, 114589 >>

\* Math.atan2(y, x) in degrees, to the nearest degree, in -179..180
Atan2Deg(y, x) ==
    LET ax == Abs(x)
        ay == Abs(y)
        a  == IF ax = 0 THEN (IF ay = 0 THEN 0 ELSE 90)
              ELSE Cardinality({d \in 1..90 : HalfTan[d] * ax <= 1000 * ay})
        b  == IF x < 0 THEN 180 - a ELSE a
    IN  IF y < 0 THEN -b ELSE b

----------------------------------------------------------------------------
(* BallDetector: pure helpers *)


\* mutant: an elapsed time of zero is taken as one second
calculateVelocity_Clamped(pos1, pos2) ==
    LET dx == pos2.x - pos1.x
        dy == pos2.y - pos1.y
        dt == IF pos2.time - pos1.time = 0 THEN 1000 ELSE pos2.time - pos1.time
        vx == Quot(dx * 1000, dt)
        vy == Quot(dy * 1000, dt)
    IN  [x |-> vx, y |-> vy, magnitude |-> Sqrt(vx * vx + vy * vy)]

calculateVelocity(pos1, pos2) ==
    LET dx == pos2.x - pos1.x
        dy == pos2.y - pos1.y
        dt == pos2.time - pos1.time
    IN  IF dt = 0 THEN [x |-> 0, y |-> 0, magnitude |-> 0]
        ELSE LET vx == Quot(dx * 1000, dt)
                 vy == Quot(dy * 1000, dt)
             IN  [x |-> vx, y |-> vy, magnitude |-> Sqrt(vx * vx + vy * vy)]


\* mutant: no early return for a velocity of magnitude zero
calculateDirectionChange_NoGuard(velocity1, velocity2) ==
    LET angle1 == Atan2Deg(velocity1.y, velocity1.x)
        angle2 == Atan2Deg(velocity2.y, velocity2.x)
        angleDiff == Abs(angle2 - angle1)
    IN  IF angleDiff > 180 THEN 360 - angleDiff ELSE angleDiff

calculateDirectionChange(velocity1, velocity2) ==
    IF velocity1.magnitude = 0 \/ velocity2.magnitude = 0 THEN 0
    ELSE LET angle1 == Atan2Deg(velocity1.y, velocity1.x)
             angle2 == Atan2Deg(velocity2.y, velocity2.x)
             angleDiff == Abs(angle2 - angle1)
         IN  IF angleDiff > 180 THEN 360 - angleDiff ELSE angleDiff

isSignificantDirectionChange(directionChange) ==
    directionChange > directionChangeThreshold

\* speedChange > velocityThreshold * sensitivity, sensitivity in tenths
isSignificantSpeedChange(speedChange, sens) ==
    speedChange * 10 > velocityThreshold * sens


\* mutant: the debounce admits an interval of exactly minTimeBetweenHits
isMinTimeElapsed_AtLeast(timeSinceLastHit) ==
    timeSinceLastHit >= minTimeBetweenHits

\* mutant: the debounce compares against zero
isMinTimeElapsed_Positive(timeSinceLastHit) ==
    timeSinceLastHit > 0

isMinTimeElapsed(timeSinceLastHit) ==
    timeSinceLastHit > minTimeBetweenHits

\* the decision of calculateVelocityAndDetectHit on a window of >= 3 samples
hitDecision(positions, sens, currentTime, lastHit) ==
    LET current == positions[Len(positions)]
        previous == positions[Len(positions) - 1]
        beforePrevious == positions[Len(positions) - 2]
        velocity1 == calculateVelocity(beforePrevious, previous)
        velocity2 == calculateVelocity(previous, current)
        directionChange == calculateDirectionChange(velocity1, velocity2)
        speedChange == Abs(velocity2.magnitude - velocity1.magnitude)
        timeSinceLastHit == currentTime - lastHit
    IN  /\ \/ isSignificantDirectionChange(directionChange)
           \/ isSignificantSpeedChange(speedChange, sens)
        /\ isMinTimeElapsed(timeSinceLastHit)


\* mutant: pop() in place of shift(): the newest item is dropped, not the oldest
pushCapped_Pop(history, item, capacity) ==
    LET pushed == Append(history, item)
    IN  IF Len(pushed) > capacity THEN SubSeq(pushed, 1, Len(pushed) - 1) ELSE pushed

\* push followed by the conditional shift
pushCapped(history, item, capacity) ==
    LET pushed == Append(history, item)
    IN  IF Len(pushed) > capacity THEN Tail(pushed) ELSE pushed

newSample(position, currentTime) ==
    [x |-> position.x, y |-> position.y, time |-> currentTime,
     confidence |-> IF position.confidence = 0 THEN 100 ELSE position.confidence]

----------------------------------------------------------------------------
(* BallDetector: handlers *)


\* mutant: the hit is counted twice
registerHit_Twice ==
    hitCount' = hitCount + 2

registerHit ==
    hitCount' = hitCount + 1

calculateVelocityAndDetectHit(positions) ==
    LET previous == positions[Len(positions) - 1]
        current == positions[Len(positions)]
        velocity2 == calculateVelocity(previous, current)
        currentTime == now
    IN  /\ velocityHistory' = pushCapped(velocityHistory, velocity2, 5)
        /\ IF hitDecision(positions, sensitivity, currentTime, lastHitTime)
           THEN /\ registerHit
                /\ lastHitTime' = currentTime
                /\ hitLog' = Append(hitLog, currentTime)
           ELSE UNCHANGED <<hitCount, lastHitTime, hitLog>>

updateBallTracking(position) ==
    LET currentTime == now
        sample == newSample(position, currentTime)
        positions == pushCapped(ballPositions, sample, maxPositionHistory)
    IN  /\ ballPositions' = positions
        /\ IF Len(positions) >= 3
           THEN calculateVelocityAndDetectHit(positions)
           ELSE UNCHANGED <<velocityHistory, hitCount, lastHitTime, hitLog>>
        /\ ingestLog' = Append(ingestLog, sample)
        /\ nIngested' = nIngested + 1


\* mutant: a frame with no ball is tracked as a sample at the origin
detectBallFinish_Placeholder(ai, colour) ==
    LET ballPosition == IF ai # NoBall THEN ai ELSE colour
    IN  IF ballPosition # NoBall
        THEN updateBallTracking(ballPosition)
        ELSE updateBallTracking([x |-> 0, y |-> 0, confidence |-> 0])

\* detectBall from "if (!ballPosition)" on: ai is what detectBallWithAI returned
\* (NoBall when no model is loaded), colour what detectBallByColor finds
detectBallFinish(ai, colour) ==
    LET ballPosition == IF ai # NoBall THEN ai ELSE colour
    IN  IF ballPosition # NoBall
        THEN updateBallTracking(ballPosition)
        ELSE UNCHANGED trackingVars

\* detectBall up to its first await, or to its end when no model is loaded
detectBall(videoReady, colour) ==
    IF ~videoReady THEN UNCHANGED <<trackingVars, awaitingAI>>
    ELSE IF model
         THEN /\ awaitingAI' = awaitingAI + 1
              /\ UNCHANGED trackingVars
         ELSE /\ detectBallFinish(NoBall, colour)
              /\ UNCHANGED awaitingAI

\* the continuation of detectBall after "await this.detectBallWithAI()"
detectBallResume(ai, colour) ==
    /\ awaitingAI > 0
    /\ awaitingAI' = awaitingAI - 1
    /\ detectBallFinish(ai, colour)
    /\ UNCHANGED <<call, now, isDetecting, sensitivity, model, rafPending, repVars>>

\* startDetectionLoop past its guard: one detectBall call, one callback queued
startDetectionLoop(videoReady, colour) ==
    /\ detectBall(videoReady, colour)
    /\ rafPending' = rafPending + 1

toggleDetection(videoReady, colour) ==
    /\ IF ~isDetecting
       THEN /\ isDetecting' = TRUE
            /\ startDetectionLoop(videoReady, colour)
       ELSE /\ isDetecting' = FALSE
            /\ UNCHANGED <<trackingVars, awaitingAI, rafPending>>
    /\ UNCHANGED <<call, now, sensitivity, model, repVars>>

\* a queued requestAnimationFrame callback runs startDetectionLoop
animationFrame(videoReady, colour) ==
    /\ rafPending > 0
    /\ IF ~isDetecting
       THEN /\ rafPending' = rafPending - 1
            /\ UNCHANGED <<trackingVars, awaitingAI>>
       ELSE /\ detectBall(videoReady, colour)
            /\ rafPending' = rafPending
    /\ UNCHANGED <<call, now, isDetecting, sensitivity, model, repVars>>


\* mutant: the reset forgets the position window
resetCounter_KeepsWindow ==
    /\ hitCount' = 0
    /\ velocityHistory' = <<>>
    /\ lastHitTime' = 0
    /\ ingestLog' = <<>>
    /\ hitLog' = <<>>
    /\ UNCHANGED <<call, now, isDetecting, sensitivity, model, rafPending, awaitingAI,
                   nIngested, repVars, ballPositions>>


\* mutant: the reset leaves lastHitTime as it is
resetCounter_KeepsDebounce ==
    /\ hitCount' = 0
    /\ ballPositions' = <<>>
    /\ velocityHistory' = <<>>
    /\ ingestLog' = <<>>
    /\ hitLog' = <<>>
    /\ UNCHANGED <<call, now, isDetecting, sensitivity, model, rafPending, awaitingAI,
                   nIngested, repVars, lastHitTime>>

resetCounter ==
    /\ hitCount' = 0
    /\ ballPositions' = <<>>
    /\ velocityHistory' = <<>>
    /\ lastHitTime' = 0
    /\ ingestLog' = <<>>
    /\ hitLog' = <<>>
    /\ UNCHANGED <<call, now, isDetecting, sensitivity, model, rafPending, awaitingAI,
                   nIngested, repVars>>

sensitivityInput(value) ==
    /\ sensitivity' = value
    /\ UNCHANGED <<call, now, isDetecting, hitCount, ballPositions, velocityHistory, model,
                   lastHitTime, rafPending, awaitingAI, ingestLog, hitLog, nIngested,
                   repVars>>

\* cocoSsd.load() resolves
loadModel ==
    /\ ~model
    /\ model' = TRUE
    /\ UNCHANGED <<call, now, isDetecting, hitCount, ballPositions, velocityHistory, sensitivity,
                   lastHitTime, rafPending, awaitingAI, ingestLog, hitLog, nIngested,
                   repVars>>

\* time passes: Date.now() reads d more
Tick(d) ==
    /\ now' = now + d
    /\ UNCHANGED <<call, hitVars, repVars>>

----------------------------------------------------------------------------
(* Rep counter: inputs *)

Null == [null |-> TRUE]          \* null (no previous wrist position)
Missing == [missing |-> TRUE]    \* a landmark that is undefined
NoPose == [noPose |-> TRUE]      \* results.poseLandmarks is undefined

Point(px, py, pz) == [x |-> px, y |-> py, z |-> pz]

\* arm bent, wrist near the shoulder: elbow angle 34, wrist 11 from the shoulder
PoseBent == [shoulder |-> Point(50, 50, 0), elbow |-> Point(50, 70, 0),
             wrist |-> Point(58, 58, 0)]
\* arm stretched out and forward: elbow angle 180, wrist 40 from the shoulder
PoseExtended == [shoulder |-> Point(50, 50, 0), elbow |-> Point(70, 50, 0),
                 wrist |-> Point(90, 50, -10)]
\* half way: elbow angle 101, wrist 25 from the shoulder
PoseHalf == [shoulder |-> Point(50, 50, 0), elbow |-> Point(65, 60, 0),
             wrist |-> Point(75, 50, -5)]
\* landmarks found, the wrist not among them
PoseNoWrist == [shoulder |-> Point(50, 50, 0), elbow |-> Point(50, 70, 0),
                wrist |-> Missing]

Poses == {PoseBent, PoseExtended, PoseHalf, PoseNoWrist}
Results == Poses \cup {NoPose}

hasJoints(results) ==
    results # NoPose /\ results.shoulder # Missing /\ results.elbow # Missing
                     /\ results.wrist # Missing

----------------------------------------------------------------------------
(* Rep counter: thresholds, in hundredths of the frame and in degrees *)

throwThreshold == 3
throwVelocityThreshold == 2
minThrowAngle == 120
minCatchAngle == 80

----------------------------------------------------------------------------
(* Rep counter: pure helpers *)


\* mutant: the difference of the two directions without Math.abs
calculateAngle_Signed(a, b, c) ==
    LET degrees == Atan2Deg(c.y - b.y, c.x - b.x) - Atan2Deg(a.y - b.y, a.x - b.x)
    IN  IF degrees > 180 THEN 360 - degrees ELSE degrees

calculateAngle(a, b, c) ==
    LET degrees == Atan2Deg(c.y - b.y, c.x - b.x) - Atan2Deg(a.y - b.y, a.x - b.x)
        angle == Abs(degrees)
    IN  IF angle > 180 THEN 360 - angle ELSE angle

distanceToShoulder(wrist, shoulder) ==
    Sqrt((wrist.x - shoulder.x) * (wrist.x - shoulder.x)
         + (wrist.y - shoulder.y) * (wrist.y - shoulder.y))

\* wristPos minus the previous position, zero when there is none
velocityFrom(previous, wristPos) ==
    IF previous # Null
    THEN [x |-> wristPos.x - previous.x, y |-> wristPos.y - previous.y,
          z |-> wristPos.z - previous.z]
    ELSE [x |-> 0, y |-> 0, z |-> 0]

\* Math.round of a non-negative quotient
RoundDiv(a, b) == (2 * a + b) \div (2 * b)

RPM(n) == [value |-> n]
RPMInfinity == [infinite |-> TRUE]


\* mutant: the rate is computed from the first rep on
updateRPM_NoMinimum(count, first, shown) ==
    IF now - first = 0 THEN RPMInfinity
    ELSE RPM(RoundDiv(count * 60000, now - first))

\* what updateRPM leaves in rpmElement
updateRPM(count, first, shown) ==
    IF count < 2 THEN shown
    ELSE IF now - first = 0 THEN RPMInfinity
         ELSE RPM(RoundDiv(count * 60000, now - first))

RECURSIVE Sum(_)
Sum(seq) == IF seq = <<>> THEN 0 ELSE Head(seq) + Sum(Tail(seq))

RECURSIVE SumSquares(_)
SumSquares(seq) ==
    IF seq = <<>> THEN 0 ELSE Head(seq) * Head(seq) + SumSquares(Tail(seq))


\* mutant: no Math.max(0, ...) around the score
updateConsistency_Unclamped(times, shown) ==
    IF Len(times) < 2 THEN shown
    ELSE LET n == Len(times)
             spread == n * SumSquares(times) - Sum(times) * Sum(times)
             below == {j \in 0..999 :
                          25 * n * n * (2 * j + 1) * (2 * j + 1) < 4 * spread}
         IN  100 - Cardinality(below)

\* what updateConsistency leaves in consistencyElement:
\* Math.round(Math.max(0, 100 - stdDev / 5)), where with n = times.length
\* stdDev = sqrt(n * sum of squares - square of the sum) / n
updateConsistency(times, shown) ==
    IF Len(times) < 2 THEN shown
    ELSE LET n == Len(times)
             spread == n * SumSquares(times) - Sum(times) * Sum(times)
             \* j + 1/2 < stdDev / 5
             below == {j \in 0..99 :
                          25 * n * n * (2 * j + 1) * (2 * j + 1) < 4 * spread}
         IN  100 - Cardinality(below)


\* mutant: a timeout of 20 s
timedOut_Late(sinceChange) == sinceChange > 20000


\* mutant: the timeout never fires
timedOut_Never(sinceChange) == FALSE

\* the timeout check
timedOut(sinceChange) == sinceChange > 2000

\* the guards of the richer revision's switch
readyGuard(wristVelocity, elbowAngle) ==
    /\ wristVelocity.x > throwVelocityThreshold
    /\ wristVelocity.z < -throwVelocityThreshold
    /\ elbowAngle > minThrowAngle


\* mutant: the catch is taken from a forward motion
throwingGuard_Forward(wristVelocity) ==
    wristVelocity.x > throwVelocityThreshold

throwingGuard(wristVelocity) ==
    wristVelocity.x < -throwVelocityThreshold

catchingGuard(wrist, shoulder, elbowAngle) ==
    /\ distanceToShoulder(wrist, shoulder) < 30
    /\ elbowAngle < minCatchAngle

\* the guards of the basic revision's switch
readyGuardBasic(wristVelocity, elbowAngle) ==
    wristVelocity.x > throwThreshold /\ elbowAngle > 100

throwingGuardBasic(wristVelocity) ==
    wristVelocity.x < -throwThreshold


\* mutant: the proximity threshold taken in the wrong unit
catchingGuardBasic_Far(wrist, shoulder) ==
    distanceToShoulder(wrist, shoulder) < 200

catchingGuardBasic(wrist, shoulder) ==
    distanceToShoulder(wrist, shoulder) < 20

\* history: the trail after a step that leaves the machine in newState
trailAfter(newState, counted) ==
    IF counted THEN <<>>
    ELSE IF newState = "THROWING" /\ trail = <<>> THEN <<"THROWING">>
    ELSE IF newState = "CATCHING" /\ trail = <<"THROWING">>
         THEN <<"THROWING", "CATCHING">>
    ELSE trail

----------------------------------------------------------------------------
(* Rep counter, basic revision (src/unnamed/part_000:123-224) *)

onResultsBasic(results) ==
    /\ IF hasJoints(results)
       THEN LET shoulder == results.shoulder
                elbow == results.elbow
                wrist == results.wrist
                elbowAngle == calculateAngle(shoulder, elbow, wrist)
                wristPos == [x |-> wrist.x, y |-> wrist.y, z |-> 0]
                wristVelocity == velocityFrom(lastHandPos, wristPos)
                completes == state = "CATCHING" /\ catchingGuardBasic(wrist, shoulder)
                newState ==
                    CASE state = "READY" ->
                           IF readyGuardBasic(wristVelocity, elbowAngle)
                           THEN "THROWING" ELSE state
                      [] state = "THROWING" ->
                           IF throwingGuardBasic(wristVelocity)
                           THEN "CATCHING" ELSE state
                      [] state = "CATCHING" ->
                           IF completes THEN "READY" ELSE state
            IN  /\ lastHandPos' = wristPos
                /\ state' = newState
                /\ repCount' = IF completes THEN repCount + 1 ELSE repCount
                /\ trail' = trailAfter(newState, completes)
       ELSE UNCHANGED <<lastHandPos, state, repCount, trail>>
    /\ UNCHANGED <<call, now, hitVars, variant, lastWristPos, stateChangeTime, sessionActive,
                   sessionStartTime, firstRepTime, repTimes, lastRepTime, rpm, consistency>>

----------------------------------------------------------------------------
(* Rep counter, richer revision (src/unnamed/part_000:226-466) *)

\* the switch, entered in state current (READY when the timeout has just fired)
stateMachine(current, results) ==
    LET shoulder == results.shoulder
        elbow == results.elbow
        wrist == results.wrist
        elbowAngle == calculateAngle(shoulder, elbow, wrist)
        wristPos == [x |-> wrist.x, y |-> wrist.y, z |-> wrist.z]
        wristVelocity == velocityFrom(lastWristPos, wristPos)
        completes == current = "CATCHING" /\ catchingGuard(wrist, shoulder, elbowAngle)
        newState ==
            CASE current = "READY" ->
                   IF readyGuard(wristVelocity, elbowAngle) THEN "THROWING" ELSE current
              [] current = "THROWING" ->
                   IF throwingGuard(wristVelocity) THEN "CATCHING" ELSE current
              [] current = "CATCHING" ->
                   IF completes THEN "READY" ELSE current
    IN  /\ lastWristPos' = wristPos
        /\ state' = newState
        /\ stateChangeTime' = IF newState # current THEN now ELSE stateChangeTime
        /\ trail' = trailAfter(newState, completes)
        /\ IF completes
           THEN LET times == IF lastRepTime > 0
                             THEN Append(repTimes, now - lastRepTime) ELSE repTimes
                    first == IF repCount = 0 THEN now ELSE firstRepTime
                IN  /\ repTimes' = times
                    /\ lastRepTime' = now
                    /\ firstRepTime' = first
                    /\ repCount' = repCount + 1
                    /\ rpm' = updateRPM(repCount + 1, first, rpm)
                    /\ consistency' = updateConsistency(times, consistency)
           ELSE UNCHANGED <<repTimes, lastRepTime, firstRepTime, repCount, rpm,
                            consistency>>

\* mutant: the handler does not look at sessionActive
skipsFrame_NoGate(results) == results = NoPose

\* the frames onResults leaves alone: no landmarks, or the session is not active
skipsFrame(results) == results = NoPose \/ ~sessionActive

onResults(results) ==
    /\ IF skipsFrame(results)
       THEN UNCHANGED <<state, lastWristPos, stateChangeTime, trail, repTimes, lastRepTime,
                        firstRepTime, repCount, rpm, consistency>>
       ELSE LET current == IF timedOut(now - stateChangeTime) THEN "READY" ELSE state
            IN  IF hasJoints(results)
                THEN stateMachine(current, results)
                ELSE /\ state' = current
                     /\ UNCHANGED <<lastWristPos, stateChangeTime, trail, repTimes,
                                    lastRepTime, firstRepTime, repCount, rpm, consistency>>
    /\ UNCHANGED <<call, now, hitVars, variant, lastHandPos, sessionActive, sessionStartTime>>

startBtn ==
    /\ sessionActive' = TRUE
    /\ sessionStartTime' = now
    /\ UNCHANGED <<call, now, hitVars, variant, repCount, state, lastHandPos, lastWristPos,
                   stateChangeTime, firstRepTime, repTimes, lastRepTime, rpm, consistency,
                   trail>>

pauseBtn ==
    /\ sessionActive' = FALSE
    /\ UNCHANGED <<call, now, hitVars, variant, repCount, state, lastHandPos, lastWristPos,
                   stateChangeTime, sessionStartTime, firstRepTime, repTimes, lastRepTime,
                   rpm, consistency, trail>>


\* mutant: the reset leaves lastRepTime as it is
resetBtn_KeepsLastRep ==
    /\ sessionActive' = FALSE
    /\ repCount' = 0
    /\ firstRepTime' = 0
    /\ rpm' = RPM(0)
    /\ consistency' = 100
    /\ repTimes' = <<>>
    /\ state' = "READY"
    /\ trail' = <<>>
    /\ UNCHANGED <<call, now, hitVars, variant, lastHandPos, lastWristPos, stateChangeTime,
                   sessionStartTime, lastRepTime>>


\* mutant: the reset leaves the session running
resetBtn_StaysActive ==
    /\ repCount' = 0
    /\ firstRepTime' = 0
    /\ rpm' = RPM(0)
    /\ consistency' = 100
    /\ repTimes' = <<>>
    /\ lastRepTime' = 0
    /\ state' = "READY"
    /\ trail' = <<>>
    /\ UNCHANGED <<call, now, hitVars, variant, lastHandPos, lastWristPos, stateChangeTime,
                   sessionStartTime, sessionActive>>

resetBtn ==
    /\ sessionActive' = FALSE
    /\ repCount' = 0
    /\ firstRepTime' = 0
    /\ rpm' = RPM(0)
    /\ consistency' = 100
    /\ repTimes' = <<>>
    /\ lastRepTime' = 0
    /\ state' = "READY"
    /\ trail' = <<>>
    /\ UNCHANGED <<call, now, hitVars, variant, lastHandPos, lastWristPos, stateChangeTime,
                   sessionStartTime>>

----------------------------------------------------------------------------
(* Initial state: the fields and globals as the constructor and the script set them *)

InitHit ==
    /\ isDetecting = FALSE
    /\ hitCount = 0
    /\ ballPositions = <<>>
    /\ velocityHistory = <<>>
    /\ sensitivity = 10
    /\ model = FALSE
    /\ lastHitTime = 0
    /\ rafPending = 0
    /\ awaitingAI = 0
    /\ ingestLog = <<>>
    /\ hitLog = <<>>
    /\ nIngested = 0

\* the texts of rpmElement and consistencyElement in the page as loaded
InitDisplay ==
    /\ rpm = RPM(0)
    /\ consistency = 100

InitRep ==
    /\ repCount = 0
    /\ state = "READY"
    /\ lastHandPos = Null
    /\ lastWristPos = Null
    /\ stateChangeTime = Epoch
    /\ sessionActive = FALSE
    /\ sessionStartTime = 0
    /\ firstRepTime = 0
    /\ repTimes = <<>>
    /\ lastRepTime = 0
    /\ InitDisplay
    /\ trail = <<>>


Init ==
    /\ now = Epoch
    /\ InitHit
    /\ InitRep
    /\ variant = "richer"
    /\ call = NoCall

----------------------------------------------------------------------------
(* SpecHit: the hit detector with no AI model loaded (every frame is handled *)
(* synchronously), detection started once and left running                   *)

\* what a frame can show while the run may still ingest
Frames(balls, limit) == IF nIngested < limit THEN balls \cup {NoBall} ELSE {NoBall}

NextHit ==
    \/ \E d \in {500} : now + d <= Epoch + MaxTicks * d /\ Tick(d)
    \/ \E ready \in BOOLEAN, colour \in Frames(Balls, MaxSamples) :
          ~isDetecting /\ rafPending = 0 /\ toggleDetection(ready, colour)
    \/ \E ready \in BOOLEAN, colour \in Frames(Balls, MaxSamples) :
          animationFrame(ready, colour)
    \/ resetCounter
    \/ \E value \in Sensitivities : sensitivityInput(value)

SpecHit == Init /\ [][NextHit]_vars

----------------------------------------------------------------------------
(* SpecLoop: the scheduling of the hit detector: the AI model may load, detectBall *)
(* calls await it, Start and Stop are pressed at any time                          *)

NextLoop ==
    \/ \E d \in {1500} : now + d <= Epoch + MaxLoopTicks * d /\ Tick(d)
    \/ loadModel
    \/ \E ready \in BOOLEAN, colour \in Frames({BallA, BallB}, MaxLoopSamples) :
          /\ isDetecting \/ rafPending < MaxLoops
          /\ isDetecting \/ ~model \/ ~ready \/ awaitingAI < MaxAwaiting
          /\ toggleDetection(ready, colour)
    \/ \E ready \in BOOLEAN, colour \in Frames({BallA, BallB}, MaxLoopSamples) :
          /\ ~isDetecting \/ ~model \/ ~ready \/ awaitingAI < MaxAwaiting
          /\ animationFrame(ready, colour)
    \/ \E ai \in Frames({BallB}, MaxLoopSamples), colour \in Frames({BallA}, MaxLoopSamples) :
          detectBallResume(ai, colour)
    \/ resetCounter

SpecLoop == Init /\ [][NextLoop]_vars

----------------------------------------------------------------------------
(* SpecWindow: long runs of the hit detector, started once, the ball at rest *)
(* after the first frame, so that both histories fill up and evict; the      *)
(* samples differ in their times                                             *)

NextWindow ==
    \/ \E d \in {1000} : now + d <= Epoch + MaxWindowTicks * d /\ Tick(d)
    \/ \E colour \in Frames({BallA, BallB}, MaxWindowSamples) :
          ~isDetecting /\ toggleDetection(TRUE, colour)
    \/ \E colour \in Frames({BallA}, MaxWindowSamples) :
          animationFrame(TRUE, colour)
    \/ resetCounter

SpecWindow == Init /\ [][NextWindow]_vars

----------------------------------------------------------------------------
(* SpecRep: the rep counter, in either revision *)

InitRepPage ==
    /\ now = Epoch
    /\ InitHit
    /\ InitRep
    /\ variant \in {"basic", "richer"}
    /\ call = NoCall

NextRep ==
    \/ \E d \in {1000} : now + d <= Epoch + MaxRepTicks * d /\ Tick(d)
    \/ \E results \in Results :
          variant = "basic" /\ repCount < MaxReps /\ onResultsBasic(results)
    \/ \E results \in Results :
          variant = "richer" /\ repCount < MaxReps /\ onResults(results)
    \/ variant = "richer" /\ startBtn
    \/ variant = "richer" /\ pauseBtn
    \/ variant = "richer" /\ resetBtn

SpecRep == InitRepPage /\ [][NextRep]_vars

----------------------------------------------------------------------------
(* Properties of the hit detector *)

\* a step that ingests a sample
Ingests == Len(ingestLog') = Len(ingestLog) + 1

\* the two velocities the newest sample of a window closes
lastVelocities(window) ==
    LET n == Len(window)
    IN  <<calculateVelocity(window[n - 2], window[n - 1]),
          calculateVelocity(window[n - 1], window[n])>>

\* the newest sample reverses or changes speed enough, debounce aside
qualifies(window, sens) ==
    /\ Len(window) >= 3
    /\ LET v == lastVelocities(window)
       IN  \/ calculateDirectionChange(v[1], v[2]) > 120
           \/ Abs(v[2].magnitude - v[1].magnitude) * 10 > 50 * sens

\* C1: a processed sample registers a hit (hitCount + 1, lastHitTime = now) if and
\* only if the window then holds at least 3 samples, the direction change of the last
\* two velocities exceeds 120 degrees or their speed change exceeds 50 * sensitivity,
\* and now - lastHitTime > 1000; otherwise hitCount and lastHitTime stay as they
\* were, also when only the debounce keeps the candidate out.
C1_HitIff ==
    [][ Ingests =>
          IF qualifies(ballPositions', sensitivity) /\ now - lastHitTime > 1000
          THEN hitCount' = hitCount + 1 /\ lastHitTime' = now
          ELSE hitCount' = hitCount /\ lastHitTime' = lastHitTime ]_vars

\* one hit on the books, and the newest sample, a reversal no more than 1000 ms after
\* it, has been processed without counting
C1_Witness ==
    /\ hitCount = 1
    /\ Len(ballPositions) >= 3
    /\ LET v == lastVelocities(ballPositions)
       IN  calculateDirectionChange(v[1], v[2]) > 120
    /\ ballPositions[Len(ballPositions)].time > lastHitTime
    /\ ballPositions[Len(ballPositions)].time - lastHitTime <= 1000

\* C2: with no reset in between, two successive registered hits are more than 1000 ms
\* apart (so a second reversal within 1000 ms of a hit is not counted), and hitCount
\* counts exactly the registered hits.
C2_Debounce ==
    /\ hitCount = Len(hitLog)
    /\ \A i \in 1..(Len(hitLog) - 1) : hitLog[i + 1] - hitLog[i] > 1000

C2_Witness == Len(hitLog) >= 2

\* C5: resetCounter leaves hitCount = 0, both histories empty and lastHitTime = 0,
\* and a hit is on the books only when at least three samples were ingested since
\* the last reset.
C5_Reset ==
    /\ [][ resetCounter =>
             /\ hitCount' = 0
             /\ ballPositions' = <<>>
             /\ velocityHistory' = <<>>
             /\ lastHitTime' = 0 ]_vars
    /\ [](hitCount > 0 => Len(ingestLog) >= 3)

\* a hit registered from samples that all came after a reset of a non-empty window
C5_Witness ==
    /\ hitCount = 1
    /\ Len(ingestLog) = 3
    /\ nIngested > Len(ingestLog)

\* C8 (as claimed): while detection stays stopped, no sample is ingested:
\* ballPositions, hitCount and lastHitTime change only by a reset.
C8_StopGates ==
    [][ (~isDetecting /\ ~isDetecting' /\ ~resetCounter) =>
           UNCHANGED <<ballPositions, hitCount, lastHitTime>> ]_vars

\* a frame on which neither detector finds a ball: the synchronous detectBall of a
\* Start or of an animation frame, or the continuation of an awaiting one
NoBallFrame ==
    \/ \E ready \in BOOLEAN : toggleDetection(ready, NoBall)
    \/ \E ready \in BOOLEAN : animationFrame(ready, NoBall)
    \/ detectBallResume(NoBall, NoBall)

\* C9: a frame on which neither the AI detector nor the colour detector finds a ball
\* leaves ballPositions, velocityHistory, hitCount and lastHitTime unchanged.
C9_MissingSample ==
    [][ NoBallFrame =>
           UNCHANGED <<ballPositions, velocityHistory, hitCount, lastHitTime>> ]_vars

\* a detectBall call whose AI detection found nothing is resuming over a window
\* that holds samples
C9_Witness ==
    /\ awaitingAI > 0
    /\ Len(ballPositions) >= 1
    /\ isDetecting

\* C10: ballPositions is the last min(n, 10) of the n samples ingested since the last
\* reset, in insertion order; velocityHistory never holds more than 5 entries.
C10_Window ==
    LET n == Len(ingestLog)
        k == IF n < 10 THEN n ELSE 10
    IN  /\ ballPositions = SubSeq(ingestLog, n - k + 1, n)
        /\ Len(ballPositions) <= 10
        /\ Len(velocityHistory) <= 5

\* both histories full, an eviction behind them, the window not uniform
C10_Witness ==
    /\ Len(ingestLog) > 10
    /\ Len(ballPositions) = 10
    /\ Len(velocityHistory) = 5
    /\ ballPositions[1] # ballPositions[10]
    /\ ballPositions[1].time < ballPositions[10].time

----------------------------------------------------------------------------
(* Properties of the rep counter *)

\* the return-to-anchor guard of the running revision, on a frame's landmarks
returnsToAnchor(results) ==
    LET dx == results.wrist.x - results.shoulder.x
        dy == results.wrist.y - results.shoulder.y
        angle == calculateAngle(results.shoulder, results.elbow, results.wrist)
    IN  IF variant = "basic" THEN dx * dx + dy * dy < 20 * 20
        ELSE dx * dx + dy * dy < 30 * 30 /\ angle < 80

\* a frame handled by the running revision
Handles(results) ==
    IF variant = "basic" THEN onResultsBasic(results) ELSE onResults(results)

\* C3: in both revisions repCount grows only by 1, only on a step from CATCHING to
\* READY made on a frame whose return-to-anchor guard holds, and only after THROWING
\* and then CATCHING were entered since the last rep, reset or load.
C3_RepOnlyOnReturn ==
    [][ repCount' > repCount =>
          /\ repCount' = repCount + 1
          /\ state = "CATCHING"
          /\ state' = "READY"
          /\ trail = <<"THROWING", "CATCHING">>
          /\ \E results \in Poses :
                hasJoints(results) /\ returnsToAnchor(results) /\ Handles(results) ]_vars

\* a second cycle has got as far as CATCHING after a first counted rep
C3_Witness ==
    /\ repCount = 1
    /\ state = "CATCHING"
    /\ trail = <<"THROWING", "CATCHING">>

\* C4: richer revision, session active: when the state is THROWING or CATCHING and
\* more than 2000 ms have passed since stateChangeTime, a frame with landmarks leaves
\* the state machine where a start from READY puts it: in THROWING when the frame
\* meets the READY guard, in READY otherwise, and no rep is counted.
C4_TimeoutFirst ==
    [][ \A results \in Poses :
          ( /\ variant = "richer"
            /\ sessionActive
            /\ state \in {"THROWING", "CATCHING"}
            /\ now - stateChangeTime > 2000
            /\ onResults(results) )
          => /\ repCount' = repCount
             /\ IF hasJoints(results)
                THEN LET v == velocityFrom(lastWristPos, results.wrist)
                         angle == calculateAngle(results.shoulder, results.elbow,
                                                 results.wrist)
                     IN  state' = IF v.x > 2 /\ v.z < -2 /\ angle > 120
                                  THEN "THROWING" ELSE "READY"
                ELSE state' = "READY" ]_vars

\* back in READY from CATCHING without a rep and without a reset
C4_Witness ==
    /\ variant = "richer"
    /\ sessionActive
    /\ state = "READY"
    /\ trail = <<"THROWING", "CATCHING">>
    /\ repCount = 0

\* C6 (as claimed): reset leaves the counters, the state and the displays at their
\* initial values and no recorded wrist position.
C6_ResetClearsAll ==
    [][ resetBtn =>
          /\ repCount' = 0
          /\ state' = "READY"
          /\ repTimes' = <<>>
          /\ lastRepTime' = 0
          /\ firstRepTime' = 0
          /\ rpm' = RPM(0)
          /\ consistency' = 100
          /\ lastWristPos' = Null ]_vars

\* C7: richer revision: while sessionActive is false nothing but reset changes state,
\* repCount, repTimes, lastRepTime, firstRepTime, lastWristPos or stateChangeTime;
\* start and pause change nothing but sessionActive and sessionStartTime.
C7_Gating ==
    [][ /\ (variant = "richer" /\ ~sessionActive /\ ~resetBtn) =>
             UNCHANGED <<state, repCount, repTimes, lastRepTime, firstRepTime,
                         lastWristPos, stateChangeTime>>
        /\ (startBtn \/ pauseBtn) =>
             UNCHANGED <<state, repCount, repTimes, lastRepTime, firstRepTime,
                         lastWristPos, stateChangeTime, rpm, consistency>> ]_vars

\* paused in the middle of a gesture, a rep already counted
C7_Witness ==
    /\ variant = "richer"
    /\ ~sessionActive
    /\ state = "CATCHING"
    /\ repCount = 1


----------------------------------------------------------------------------
(* SpecCounters: either page, one run each: the hit detector started once with *)
(* no AI model, or the rep counter in either revision                          *)

InitCounters ==
    /\ now = Epoch
    /\ InitHit
    /\ InitRep
    /\ variant \in {"basic", "richer", "detector"}
    /\ call = NoCall

NextCounters ==
    \/ /\ variant = "detector"
       /\ \/ \E d \in {500} : now + d <= Epoch + MaxTicks * d /\ Tick(d)
          \/ \E colour \in Frames({BallA, BallB}, MaxSamples) :
                ~isDetecting /\ rafPending = 0 /\ toggleDetection(TRUE, colour)
          \/ \E colour \in Frames({BallA, BallB}, MaxSamples) :
                animationFrame(TRUE, colour)
          \/ resetCounter
    \/ variant # "detector" /\ NextRep

SpecCounters == InitCounters /\ [][NextCounters]_vars

----------------------------------------------------------------------------
(* Properties of the sample window and the counters *)

\* C11 (as claimed): the samples of ballPositions are strictly increasing in time,
\* also when two samples are ingested within one reading of the clock.
C11_StrictTimes ==
    \A i \in 1..(Len(ballPositions) - 1) :
        ballPositions[i].time < ballPositions[i + 1].time

\* C12: a step changes hitCount and repCount by 0 or +1 unless it is the reset of
\* that counter, which zeroes it; an increment of hitCount comes from a processed
\* sample and sets lastHitTime to the current time in the same step; an increment
\* of repCount comes from a processed pose frame.
C12_MonotoneCounters ==
    [][ /\ hitCount' \in {hitCount, hitCount + 1} \/ (resetCounter /\ hitCount' = 0)
        /\ hitCount' = hitCount + 1 => Ingests /\ lastHitTime' = now /\ now' = now
        /\ repCount' \in {repCount, repCount + 1} \/ (resetBtn /\ repCount' = 0)
        /\ repCount' = repCount + 1 =>
              \E results \in Poses : onResultsBasic(results) \/ onResults(results)
      ]_vars

\* a second hit is on the books, registered at the current time
C12_Witness ==
    /\ variant = "detector"
    /\ hitCount = 2
    /\ lastHitTime = now


----------------------------------------------------------------------------
(* SpecCalc: the helper functions called on their own, on arguments drawn from *)
(* small sets; the arguments need not come from a run of the page: sample      *)
(* times are in any order                                                      *)

CalcTimes == {Epoch, Epoch + 500, Epoch + 1000}

CalcSamples ==
    {[x |-> px, y |-> py, time |-> t, confidence |-> 50] :
        px \in {0, 30}, py \in {0, 30}, t \in CalcTimes}

\* the velocities calculateVelocity yields on those samples
CalcVelocities ==
    {calculateVelocity(pos1, pos2) : pos1 \in CalcSamples, pos2 \in CalcSamples}

CalcPoints == {Point(px, py, 0) : px \in {30, 50, 70}, py \in {30, 50, 70}}

CalcDurations == {1000, 1002, 3500}

CalcDurationLists ==
    UNION {[1..n -> CalcDurations] : n \in 2..MaxDurations}

Called(fn, args) == [fn |-> fn, args |-> args, done |-> FALSE]

Returns(result) ==
    call' = [fn |-> call.fn, args |-> call.args, done |-> TRUE, result |-> result]

InitCalc ==
    /\ now = Epoch
    /\ InitHit
    /\ InitRep
    /\ variant = "richer"
    /\ \/ \E pos1 \in CalcSamples, pos2 \in CalcSamples :
             call = Called("calculateVelocity", <<pos1, pos2>>)
       \/ \E velocity1 \in CalcVelocities, velocity2 \in CalcVelocities :
             call = Called("calculateDirectionChange", <<velocity1, velocity2>>)
       \/ \E p1 \in CalcSamples, p2 \in CalcSamples, p3 \in CalcSamples,
             sens \in Sensitivities, lastHit \in {0, Epoch + 500} :
             call = Called("calculateVelocityAndDetectHit",
                           [positions |-> <<p1, p2, p3>>, sens |-> sens,
                            lastHit |-> lastHit])
       \/ \E a \in CalcPoints, b \in CalcPoints, c \in CalcPoints :
             call = Called("calculateAngle", <<a, b, c>>)
       \/ \E times \in CalcDurationLists :
             call = Called("updateConsistency", times)

callCalculateVelocity ==
    /\ call.fn = "calculateVelocity" /\ ~call.done
    /\ Returns(calculateVelocity(call.args[1], call.args[2]))
    /\ UNCHANGED <<now, hitVars, repVars>>

callCalculateDirectionChange ==
    /\ call.fn = "calculateDirectionChange" /\ ~call.done
    /\ Returns(calculateDirectionChange(call.args[1], call.args[2]))
    /\ UNCHANGED <<now, hitVars, repVars>>

\* the hit condition on a window of three samples, the newest taken at currentTime
callHitDecision ==
    /\ call.fn = "calculateVelocityAndDetectHit" /\ ~call.done
    /\ Returns(hitDecision(call.args.positions, call.args.sens,
                           call.args.positions[3].time, call.args.lastHit))
    /\ UNCHANGED <<now, hitVars, repVars>>

callCalculateAngle ==
    /\ call.fn = "calculateAngle" /\ ~call.done
    /\ Returns(calculateAngle(call.args[1], call.args[2], call.args[3]))
    /\ UNCHANGED <<now, hitVars, repVars>>

\* updateConsistency with repTimes holding the list and the display at 100
callUpdateConsistency ==
    /\ call.fn = "updateConsistency" /\ ~call.done
    /\ Returns(updateConsistency(call.args, 100))
    /\ UNCHANGED <<now, hitVars, repVars>>

NextCalc ==
    \/ callCalculateVelocity
    \/ callCalculateDirectionChange
    \/ callHitDecision
    \/ callCalculateAngle
    \/ callUpdateConsistency

SpecCalc == InitCalc /\ [][NextCalc]_vars

\* the call of fn has returned
Returned(fn) == call.fn = fn /\ call.done

ZeroVelocity == [x |-> 0, y |-> 0, magnitude |-> 0]

\* C13: calculateVelocity returns x = 0, y = 0, magnitude = 0 for every pair of
\* samples with equal timestamps.
C13_ZeroElapsed ==
    Returned("calculateVelocity") /\ call.args[1].time = call.args[2].time
        => call.result = ZeroVelocity

\* two samples at different places with one timestamp, and the call has returned
C13_Witness ==
    /\ Returned("calculateVelocity")
    /\ call.args[1].time = call.args[2].time
    /\ call.args[1].x # call.args[2].x
    /\ call.result.magnitude = 0

\* C14 (as claimed): calculateVelocity returns the zero velocity for every pair of
\* samples with pos2.time < pos1.time, as it does for equal timestamps.
C14_NegativeElapsed ==
    Returned("calculateVelocity") /\ call.args[2].time < call.args[1].time
        => call.result = ZeroVelocity


\* the two velocities of the window handed to the hit condition
callVelocities == lastVelocities(call.args.positions)

\* C15: calculateDirectionChange returns 0 whenever either velocity has magnitude 0
\* and a value in [0, 180] otherwise; a window one of whose two velocities is zero
\* registers a hit only when the speed change exceeds 50 * sensitivity.
C15_DirectionChange ==
    /\ Returned("calculateDirectionChange") =>
          /\ call.result \in 0..180
          /\ call.args[1].magnitude = 0 \/ call.args[2].magnitude = 0 => call.result = 0
    /\ Returned("calculateVelocityAndDetectHit") /\ call.result =>
          \/ callVelocities[1].magnitude # 0 /\ callVelocities[2].magnitude # 0
          \/ isSignificantSpeedChange(
                 Abs(callVelocities[2].magnitude - callVelocities[1].magnitude),
                 call.args.sens)

\* a window whose first two samples share a timestamp (a zero velocity) and whose
\* third reverses has registered a hit
C15_Witness ==
    /\ Returned("calculateVelocityAndDetectHit")
    /\ call.result
    /\ callVelocities[1] = ZeroVelocity
    /\ callVelocities[2].magnitude > 0

\* C16: calculateAngle(a, b, c) equals calculateAngle(c, b, a) and lies in [0, 180]
\* (the two revisions define the function by the same text).
C16_AngleSymmetric ==
    Returned("calculateAngle") =>
        /\ call.result = calculateAngle(call.args[3], call.args[2], call.args[1])
        /\ call.result \in 0..180

\* a right angle between two different arms
C16_Witness ==
    /\ Returned("calculateAngle")
    /\ call.args[1] # call.args[3]
    /\ call.result = 90

\* the variance of a list times the square of its length
spreadOf(times) == Len(times) * SumSquares(times) - Sum(times) * Sum(times)

\* the standard deviation of times1 is less than that of times2
lessSpread(times1, times2) ==
    spreadOf(times1) * Len(times2) * Len(times2)
        < spreadOf(times2) * Len(times1) * Len(times1)

\* C19 (as claimed): of two duration lists with at least two entries, the one with
\* the smaller standard deviation is shown the strictly greater consistency.
C19_StrictlyDecreasing ==
    Returned("updateConsistency") =>
        \A other \in CalcDurationLists :
            lessSpread(other, call.args) => updateConsistency(other, 100) > call.result


----------------------------------------------------------------------------
(* Properties of the rep counter's metrics (richer revision) *)

\* a step of the richer revision that completes a rep
CompletesRep == variant = "richer" /\ repCount' = repCount + 1

\* C17: the rate shown stays "RPM: 0" while fewer than 2 reps are counted since the
\* last reset; firstRepTime is the time of the first rep since the last reset; from
\* the second rep on each completed rep shows repCount divided by the minutes
\* elapsed since firstRepTime (rounded to the nearest integer as Math.round does,
\* Infinity when no time has elapsed).
C17_Rate ==
    /\ [](variant = "richer" /\ repCount < 2 => rpm = RPM(0))
    /\ [][ CompletesRep =>
             /\ firstRepTime' = IF repCount = 0 THEN now ELSE firstRepTime
             /\ repCount' >= 2 =>
                   LET elapsed == now - firstRepTime
                   IN  IF elapsed = 0 THEN rpm' = RPMInfinity
                       ELSE /\ rpm' # RPMInfinity
                            /\ 2 * Abs(rpm'.value * elapsed - repCount' * 60000) <= elapsed
         ]_vars

\* three reps, the third two seconds after the first: 90 reps per minute
C17_Witness ==
    /\ variant = "richer"
    /\ repCount = 3
    /\ firstRepTime = now - 2000
    /\ lastRepTime = now
    /\ rpm = RPM(90)

\* C18: the consistency shown is 100 while fewer than two durations are recorded,
\* which is the case until the third rep after a reset, and it is always a value
\* in [0, 100].
C18_Consistency ==
    /\ consistency \in 0..100
    /\ Len(repTimes) < 2 => consistency = 100
    /\ variant = "richer" /\ repCount < 3 => Len(repTimes) < 2

\* two uneven durations are recorded and the score has dropped to the floor
C18_Witness ==
    /\ variant = "richer"
    /\ Len(repTimes) = 2
    /\ repTimes[1] # repTimes[2]
    /\ consistency = 0

\* C20: a completed rep sets lastRepTime to the current time and, unless it is the
\* first since the last reset or the load, appends now - lastRepTime (the previous
\* rep's time) to repTimes and nothing else; the number of recorded durations is
\* max(0, repCount - 1) in every state.
C20_Durations ==
    /\ [](variant = "richer" =>
             Len(repTimes) = IF repCount = 0 THEN 0 ELSE repCount - 1)
    /\ [][ CompletesRep =>
             /\ lastRepTime' = now
             /\ repTimes' = IF repCount = 0 THEN repTimes
                            ELSE Append(repTimes, now - lastRepTime)
         ]_vars

\* two reps one second apart, counted in a session started after the page's load
C20_Witness ==
    /\ variant = "richer"
    /\ repCount = 2
    /\ repTimes = <<1000>>
    /\ lastRepTime = now
    /\ sessionStartTime > Epoch


----------------------------------------------------------------------------
(* Properties of the hit condition's inputs: confidence and sensitivity *)

\* the window with the confidence of its newest sample set to c (in hundredths)
withConfidence(positions, c) ==
    [positions EXCEPT ![Len(positions)] = [@ EXCEPT !.confidence = c]]

\* C21 (as claimed): the hit decision takes the newest sample's confidence into
\* account: a window that registers a hit no longer does when the same sample, at
\* the same place and time, comes with the lowest confidence (0.01).
C21_ConfidenceFilters ==
    Returned("calculateVelocityAndDetectHit") /\ call.result =>
        ~hitDecision(withConfidence(call.args.positions, 1), call.args.sens,
                     call.args.positions[3].time, call.args.lastHit)

\* C22 (as claimed): a window that registers a hit at sensitivity s registers a hit
\* at every higher sensitivity, with the same lastHitTime and current time.
C22_SensitivityMonotone ==
    Returned("calculateVelocityAndDetectHit") /\ call.result =>
        \A higher \in Sensitivities :
            higher > call.args.sens =>
                hitDecision(call.args.positions, higher,
                            call.args.positions[3].time, call.args.lastHit)


----------------------------------------------------------------------------
(* Properties of the detection loop and of frames without the joints *)

\* C27 (as claimed): at most one requestAnimationFrame callback of the detection
\* loop is pending at any time, whatever the sequence of Start and Stop.
C27_SingleLoop == rafPending <= 1

\* a pose frame in which a tracked joint is not found
JointsMissingFrame ==
    \E results \in Results : ~hasJoints(results) /\ Handles(results)

\* C25 (as claimed): a frame without the shoulder, elbow or wrist leaves state,
\* repCount, the last wrist position and stateChangeTime unchanged, in both
\* revisions.
C25_MissingJoints ==
    [][ JointsMissingFrame =>
          UNCHANGED <<state, repCount, lastHandPos, lastWristPos, stateChangeTime>>
      ]_vars


----------------------------------------------------------------------------
(* Properties of the rep counter's transitions *)

\* the wrist position of the previous processed frame
previousWrist == IF variant = "basic" THEN lastHandPos ELSE lastWristPos

\* the state the switch is entered in
switchState ==
    IF variant = "richer" /\ now - stateChangeTime > 2000 THEN "READY" ELSE state

\* the state a processed frame must leave, by the guards as the claim gives them
guardedState(results) ==
    LET dx == IF previousWrist = Null THEN 0 ELSE results.wrist.x - previousWrist.x
        dz == IF previousWrist = Null THEN 0 ELSE results.wrist.z - previousWrist.z
        angle == calculateAngle(results.shoulder, results.elbow, results.wrist)
        throws == IF variant = "basic" THEN dx > 3 /\ angle > 100
                  ELSE dx > 2 /\ dz < -2 /\ angle > 120
        catches == IF variant = "basic" THEN dx < -3 ELSE dx < -2
    IN  CASE switchState = "READY" -> IF throws THEN "THROWING" ELSE "READY"
          [] switchState = "THROWING" -> IF catches THEN "CATCHING" ELSE "THROWING"
          [] switchState = "CATCHING" ->
                IF returnsToAnchor(results) THEN "READY" ELSE "CATCHING"

stale == now - stateChangeTime > 2000

\* a frame the richer revision processes after its timeout has fired
TimeoutFrame ==
    /\ variant = "richer"
    /\ sessionActive
    /\ stale
    /\ \E results \in Poses : onResults(results)

\* C26: richer revision: a frame on which the timeout fires and a reset never
\* increment repCount or append to repTimes; the timeout frame leaves lastRepTime
\* and firstRepTime as they are and the state in READY or, by a new throw, in
\* THROWING; reset zeroes them.  A rep is counted only from a CATCHING that has not
\* timed out, CATCHING is entered only from a THROWING that has not timed out, and
\* THROWING only from READY or from a timed-out state: after a timeout a rep takes
\* a fresh READY -> THROWING -> CATCHING -> READY cycle.
C26_TimeoutDiscards ==
    [][ variant = "richer" =>
          /\ TimeoutFrame =>
                /\ UNCHANGED <<repCount, repTimes, lastRepTime, firstRepTime>>
                /\ state' \in {"READY", "THROWING"}
          /\ resetBtn =>
                /\ repCount' = 0 /\ repTimes' = <<>>
                /\ lastRepTime' = 0 /\ firstRepTime' = 0
                /\ state' = "READY"
          /\ repCount' = repCount + 1 => state = "CATCHING" /\ ~stale
          /\ state' = "CATCHING" /\ state # "CATCHING" => state = "THROWING" /\ ~stale
          /\ state' = "THROWING" /\ state # "THROWING" => state = "READY" \/ stale
      ]_vars

\* after one rep a second gesture got as far as CATCHING and was timed out
C26_Witness ==
    /\ variant = "richer"
    /\ sessionActive
    /\ repCount = 1
    /\ lastRepTime > 0
    /\ state = "READY"
    /\ trail = <<"THROWING", "CATCHING">>
    /\ stale


\* C29: richer revision: reset leaves the session inactive, the state READY and
\* repCount 0; while the session is inactive no step but Start and reset changes
\* sessionActive, state or repCount (no incoming frame does); Start activates the
\* session and leaves state and repCount as they are: READY and 0 after a reset.
C29_ResetDeactivates ==
    [][ variant = "richer" =>
          /\ resetBtn => ~sessionActive' /\ state' = "READY" /\ repCount' = 0
          /\ ~sessionActive /\ ~startBtn /\ ~resetBtn =>
                UNCHANGED <<sessionActive, state, repCount>>
          /\ startBtn => sessionActive' /\ UNCHANGED <<state, repCount>>
      ]_vars

\* a session running again after a reset that followed a transition made later
\* than the load: READY, repCount 0, the transition's time still in stateChangeTime
C29_Witness ==
    /\ variant = "richer"
    /\ sessionActive
    /\ state = "READY"
    /\ repCount = 0
    /\ trail = <<>>
    /\ stateChangeTime > Epoch
    /\ sessionStartTime > stateChangeTime


----------------------------------------------------------------------------
(* SpecReset: the hit detector started once with no AI model, frames a quarter *)
(* of a second apart, the counter reset whenever it shows a hit                *)

NextReset ==
    \/ \E d \in {250} : now + d <= Epoch + MaxResetTicks * d /\ Tick(d)
    \/ \E colour \in Frames({BallA, BallB}, MaxResetSamples) :
          ~isDetecting /\ toggleDetection(TRUE, colour)
    \/ \E colour \in Frames({BallA, BallB}, MaxResetSamples) :
          animationFrame(TRUE, colour)
    \/ hitCount > 0 /\ resetCounter

SpecReset == Init /\ [][NextReset]_vars

\* C28: resetCounter sets lastHitTime to 0, and the first sample since a reset (or
\* since the load) that closes a window of at least 3 samples and meets the
\* direction or speed criterion registers a hit, however recent the last hit
\* before the reset.
C28_ResetClearsDebounce ==
    /\ [][ resetCounter => lastHitTime' = 0 ]_vars
    /\ [][ Ingests /\ hitLog = <<>> /\ qualifies(ballPositions', sensitivity) =>
              hitCount' = 1 /\ lastHitTime' = now ]_vars

\* a hit registered after a reset, less than 1000 ms after the load and so less
\* than 1000 ms after the hit that the reset wiped
C28_Witness ==
    /\ hitCount = 1
    /\ lastHitTime = now
    /\ nIngested > Len(ingestLog)
    /\ now - Epoch < minTimeBetweenHits


----------------------------------------------------------------------------
(* SpecRepFair: the rep counter with the camera running: time keeps passing   *)
(* (up to the bound) and, in the basic revision, frames with the joints keep  *)
(* being processed                                                            *)

ClockTick == \E d \in {1000} : now + d <= Epoch + MaxRepTicks * d /\ Tick(d)

BasicFrame ==
    \E results \in Poses :
        variant = "basic" /\ repCount < MaxReps /\ onResultsBasic(results)

SpecRepFair == SpecRep /\ WF_vars(ClockTick) /\ WF_vars(BasicFrame)

\* C24 (as claimed): basic revision: a state THROWING or CATCHING held since the
\* load time is left once frames keep arriving and more than 2000 ms have gone by.
C24_BasicNoLockUp ==
    /\ [](variant = "basic" /\ state = "THROWING" /\ now = Epoch
             => <>(state # "THROWING"))
    /\ [](variant = "basic" /\ state = "CATCHING" /\ now = Epoch
             => <>(state # "CATCHING"))

====
